---- MODULE Spec2Model ----
(***************************************************************************)
(* Model of internal/quic/tls.go: the glue between a QUIC connection and   *)
(* the crypto/tls QUIC handshake engine.                                   *)
(*                                                                         *)
(* One Conn is modelled.  The outer calls startTLS and handleCrypto run    *)
(* in the connection's single serialized context; the loop of              *)
(* handleTLSEvents is modelled one iteration per step (one action per case *)
(* of its switch), and no outer call is enabled while the loop runs.  An   *)
(* error return ends the connection (pc = "failed").                       *)
(*                                                                         *)
(* The TLS engine (crypto/tls.QUICConn) is a black box: it queues events   *)
(* when it is started, when it is fed data and when it is asked for a      *)
(* session ticket, and NextEvent returns QUICNoEvent when the queue is     *)
(* empty.  The queue is kept as the number of queued events; the content   *)
(* of an event is chosen when it is fetched.                               *)
(***************************************************************************)
EXTENDS Integers, Sequences, FiniteSets, TLC

\* ------------------------------------------------------------------ bounds
MaxConnID == 1
MaxSecret == 1
MaxData == 2
MaxParam == 1
MaxEvents == 3
MaxBurst == 2
MaxDeliver == 1
MaxStreamEvents == 1
MaxStreamDeliver == 2
MaxOff == 1
MaxLen == 2
MaxByte == 1
MaxPairID == 5

\* ------------------------------------------------------------ value sets
clientSide == "clientSide"
serverSide == "serverSide"
Sides == {clientSide, serverSide}

initialSpace == "initialSpace"
handshakeSpace == "handshakeSpace"
appDataSpace == "appDataSpace"
\* the valid indexes of c.rkeys, c.wkeys and c.crypto
Spaces == {initialSpace, handshakeSpace, appDataSpace}
\* a numberSpace value outside the three (numberSpace is an integer type)
badSpace == "numberSpaceCount"

QUICEncryptionLevelInitial == "Initial"
QUICEncryptionLevelEarly == "Early"
QUICEncryptionLevelHandshake == "Handshake"
QUICEncryptionLevelApplication == "Application"
Levels ==
  {QUICEncryptionLevelInitial, QUICEncryptionLevelEarly,
   QUICEncryptionLevelHandshake, QUICEncryptionLevelApplication}
NoLevel == "none"

GoodSuite == "TLS_AES_128_GCM_SHA256"
BadSuite == "unsupported"
Suites == {GoodSuite, BadSuite}

ConnIDs == {<<i>> : i \in 1..MaxConnID}
Secrets == {<<i>> : i \in 1..MaxSecret}
Payloads == {<<i>> : i \in 1..MaxData}
Params == 1..MaxParam
Bytes == 0..MaxByte
Offsets == 0..MaxOff
\* offsets a CRYPTO frame of the model can touch
Positions == 0..(MaxOff + MaxLen - 1)
Chunks == UNION {[1..n -> Bytes] : n \in 1..MaxLen}

NoKeys == [suite |-> "none", secret |-> <<>>, label |-> "none"]
NoByte == -1
NoTime == 0
NoParams == 0

\* ------------------------------------------------------- engine events
NoEvent == [Kind |-> "QUICNoEvent", Level |-> NoLevel, Suite |-> "none", Data |-> <<>>]

SecretEvents(kind) ==
  {[Kind |-> kind, Level |-> l, Suite |-> s, Data |-> d] :
     l \in Levels, s \in Suites, d \in Secrets}

WriteDataEvents ==
  {[Kind |-> "QUICWriteData", Level |-> l, Suite |-> "none", Data |-> d] :
     l \in Levels, d \in Payloads}

HandshakeDoneEvent ==
  [Kind |-> "QUICHandshakeDone", Level |-> NoLevel, Suite |-> "none", Data |-> <<>>]

\* a marshalled parameter blob is one byte per parameter set in the model;
\* the empty blob does not parse
marshalTransportParameters(p) == <<p>>

TransportParametersEvents ==
  {[Kind |-> "QUICTransportParameters", Level |-> NoLevel, Suite |-> "none", Data |-> d] :
     d \in {marshalTransportParameters(p) : p \in Params} \cup {<<>>}}

\* every event NextEvent can return while the queue is not empty
EngineEvents ==
  SecretEvents("QUICSetReadSecret") \cup SecretEvents("QUICSetWriteSecret")
    \cup WriteDataEvents \cup {HandshakeDoneEvent} \cup TransportParametersEvents

\* --------------------------------------------------------------- state
VARIABLES
  side,                   \* c.side
  sessionTicketsDisabled, \* c.config.TLSConfig.SessionTicketsDisabled
  pc,                     \* "new", "drain" (in handleTLSEvents), "idle", "failed"
  err,                    \* result of the last outer call
  now,                    \* the now argument of the current outer call
  rkeys, wkeys,           \* c.rkeys, c.wkeys
  out,                    \* c.crypto[space] outbound bytes
  recv, cursor,           \* c.crypto[space] inbound bytes and delivery cursor
  tlsParams,              \* blob given to c.tls.SetTransportParameters
  pending, emitted,       \* engine: queued events, events queued so far
  fed,                    \* engine: bytes taken by HandleData, per level
  ticketCalls,            \* engine: SendSessionTicket invocations
  confirmed, confirmedAt, \* connection: handshake confirmation
  confirmCalls,           \* connection: confirmHandshake invocations
  peerParams, paramCalls, \* connection: receiveTransportParameters
  e,                      \* the event of the last NextEvent
  fetches,                \* NextEvent calls of the current outer call
  got,                    \* events other than QUICNoEvent fetched by the current outer call
  delivers,               \* handleCrypto calls so far
  feedCalls,              \* HandleData calls of the current outer call
  lastFed,                \* the bytes of the last HandleData call
  arg,                    \* space, off and data of the last handleCrypto call
  pair,                   \* two endpoints' Initial keys (key symmetry)
  probed                  \* results of the level mapping on the inputs tried

vars ==
  <<side, sessionTicketsDisabled, pc, err, now, rkeys, wkeys, out, recv, cursor,
    tlsParams, pending, emitted, fed, ticketCalls, confirmed, confirmedAt,
    confirmCalls, peerParams, paramCalls, e, fetches, got, delivers, feedCalls,
    lastFed, arg, pair, probed>>

connVars ==
  <<side, sessionTicketsDisabled, pc, err, now, rkeys, wkeys, out, recv, cursor,
    tlsParams, pending, emitted, fed, ticketCalls, confirmed, confirmedAt,
    confirmCalls, peerParams, paramCalls, e, fetches, got, delivers, feedCalls,
    lastFed, arg, probed>>

\* ------------------------------------------------------ pure functions
\* initialKeys(initialConnID): the client's and the server's Initial keys
initialKeys(cid) ==
  [client |-> [suite |-> GoodSuite, secret |-> cid, label |-> "client in"],
   server |-> [suite |-> GoodSuite, secret |-> cid, label |-> "server in"]]

\* mutant: the server takes the client's assignment
InitialSlots_NoSwap(s, cid) ==
  [w |-> initialKeys(cid).client, r |-> initialKeys(cid).server]

\* startTLS, the Initial key assignment: the write and read keys by side
InitialSlots(s, cid) ==
  IF s = clientSide
    THEN [w |-> initialKeys(cid).client, r |-> initialKeys(cid).server]
    ELSE [w |-> initialKeys(cid).server, r |-> initialKeys(cid).client]

\* mutant: the default case is missing, an unknown level is the zero space
spaceForLevel_NoDefault(level) ==
  CASE level = QUICEncryptionLevelHandshake -> [space |-> handshakeSpace, err |-> FALSE]
    [] level = QUICEncryptionLevelApplication -> [space |-> appDataSpace, err |-> FALSE]
    [] OTHER -> [space |-> initialSpace, err |-> FALSE]

\* mutant: the Application case returns the Handshake space
spaceForLevel_CopyPaste(level) ==
  CASE level = QUICEncryptionLevelInitial -> [space |-> initialSpace, err |-> FALSE]
    [] level = QUICEncryptionLevelHandshake -> [space |-> handshakeSpace, err |-> FALSE]
    [] level = QUICEncryptionLevelApplication -> [space |-> handshakeSpace, err |-> FALSE]
    [] OTHER -> [space |-> initialSpace, err |-> TRUE]

\* spaceForLevel: [space, err]
spaceForLevel(level) ==
  CASE level = QUICEncryptionLevelInitial -> [space |-> initialSpace, err |-> FALSE]
    [] level = QUICEncryptionLevelHandshake -> [space |-> handshakeSpace, err |-> FALSE]
    [] level = QUICEncryptionLevelApplication -> [space |-> appDataSpace, err |-> FALSE]
    [] OTHER -> [space |-> initialSpace, err |-> TRUE]

\* newKeys(suite, secret): [k, err]
newKeys(suite, secret) ==
  IF suite = GoodSuite
    THEN [k |-> [suite |-> suite, secret |-> secret, label |-> "quic key"], err |-> FALSE]
    ELSE [k |-> NoKeys, err |-> TRUE]

\* mutant: the error of newKeys is not looked at
tlsKey_IgnoresKeyErr(ev) ==
  LET sl == spaceForLevel(ev.Level)
      nk == newKeys(ev.Suite, ev.Data)
  IN  IF sl.err THEN [space |-> initialSpace, k |-> NoKeys, err |-> "level"]
      ELSE [space |-> sl.space, k |-> nk.k, err |-> "none"]

\* tlsKey(e): [space, k, err]
tlsKey(ev) ==
  LET sl == spaceForLevel(ev.Level)
      nk == newKeys(ev.Suite, ev.Data)
  IN  IF sl.err THEN [space |-> initialSpace, k |-> NoKeys, err |-> "level"]
      ELSE IF nk.err THEN [space |-> initialSpace, k |-> NoKeys, err |-> "keys"]
      ELSE [space |-> sl.space, k |-> nk.k, err |-> "none"]

\* mutant: the handshake space is given the application level
levelForSpace_Swapped(space) ==
  CASE space = initialSpace -> [level |-> QUICEncryptionLevelInitial, err |-> FALSE]
    [] space = handshakeSpace -> [level |-> QUICEncryptionLevelApplication, err |-> FALSE]
    [] space = appDataSpace -> [level |-> QUICEncryptionLevelApplication, err |-> FALSE]
    [] OTHER -> [level |-> NoLevel, err |-> TRUE]

\* mutant: level keeps its zero value, tls.QUICEncryptionLevelInitial
levelForSpace_Zero(space) ==
  CASE space \in Spaces -> [level |-> QUICEncryptionLevelInitial, err |-> FALSE]
    [] OTHER -> [level |-> NoLevel, err |-> TRUE]

\* mutant: the handshake space is given the early-data level
levelForSpace_Early(space) ==
  CASE space = initialSpace -> [level |-> QUICEncryptionLevelInitial, err |-> FALSE]
    [] space = handshakeSpace -> [level |-> QUICEncryptionLevelEarly, err |-> FALSE]
    [] space = appDataSpace -> [level |-> QUICEncryptionLevelApplication, err |-> FALSE]
    [] OTHER -> [level |-> NoLevel, err |-> TRUE]

\* handleCrypto, the switch on space: [level, err]
levelForSpace(space) ==
  CASE space = initialSpace -> [level |-> QUICEncryptionLevelInitial, err |-> FALSE]
    [] space = handshakeSpace -> [level |-> QUICEncryptionLevelHandshake, err |-> FALSE]
    [] space = appDataSpace -> [level |-> QUICEncryptionLevelApplication, err |-> FALSE]
    [] OTHER -> [level |-> NoLevel, err |-> TRUE]

\* unmarshalTransportParams(data): [params, err]
unmarshalTransportParams(data) ==
  IF Len(data) = 1 THEN [params |-> data[1], err |-> FALSE]
  ELSE [params |-> NoParams, err |-> TRUE]

\* ------------------------------------- c.crypto[space], the inbound side
\* the span [off, off+Len(data)) carries a byte that differs from a byte
\* received before at the same offset
Conflicts(rc, off, data) ==
  \E i \in 1..Len(data) : rc[off + i - 1] # NoByte /\ rc[off + i - 1] # data[i]

\* the received bytes after storing data at off
Insert(rc, off, data) ==
  [p \in Positions |->
     IF p >= off /\ p < off + Len(data) THEN data[p - off + 1] ELSE rc[p]]

\* end of the gap-free run of received bytes that starts at offset c
RECURSIVE ContigEnd(_, _)
ContigEnd(rc, c) ==
  IF c \in Positions /\ rc[c] # NoByte THEN ContigEnd(rc, c + 1) ELSE c

\* the received bytes of [a, b)
Slice(rc, a, b) == [i \in 1..(b - a) |-> rc[a + i - 1]]

\* cryptoStream.handleCrypto(off, data, f): what it hands to f, or its error
StreamHandle(rc, cur, off, data) ==
  IF Conflicts(rc, off, data)
    THEN [err |-> TRUE, recv |-> rc, end |-> cur, bytes |-> <<>>]
    ELSE LET rc2 == Insert(rc, off, data)
             end == ContigEnd(rc2, cur)
         IN  [err |-> FALSE, recv |-> rc2, end |-> end, bytes |-> Slice(rc2, cur, end)]

\* ------------------------------------------------- connection callbacks
\* c.confirmHandshake(now): the flag is set once and keeps its first time
confirmHandshake(t) ==
  /\ confirmCalls' = confirmCalls + 1
  /\ confirmed' = TRUE
  /\ confirmedAt' = IF confirmed THEN confirmedAt ELSE t

\* c.receiveTransportParameters(params)
receiveTransportParameters(p) ==
  /\ peerParams' = p
  /\ paramCalls' = paramCalls + 1

\* ---------------------------------------------------------------- engine
\* number of events the engine may queue in reaction to one input, while it
\* has queued fewer than maxEv in all
Bursts(maxEv) == {k \in 0..MaxBurst : emitted + k <= maxEv}

\* the engine queues k more events
Queue(k) ==
  /\ pending' = pending + k
  /\ emitted' = emitted + k

\* c.tls.NextEvent() returns ev; c.testHooks.handleTLSEvent only observes it
NextEvent(ev) ==
  /\ e' = ev
  /\ fetches' = fetches + 1
  /\ got' = IF ev = NoEvent THEN got ELSE got + 1

\* ------------------------------------------------------------------ Init
Init ==
  /\ side \in Sides
  /\ sessionTicketsDisabled \in BOOLEAN
  /\ pc = "new"
  /\ err = "none"
  /\ now = NoTime
  /\ rkeys = [s \in Spaces |-> NoKeys]
  /\ wkeys = [s \in Spaces |-> NoKeys]
  /\ out = [s \in Spaces |-> <<>>]
  /\ recv = [s \in Spaces |-> [p \in Positions |-> NoByte]]
  /\ cursor = [s \in Spaces |-> 0]
  /\ tlsParams = <<>>
  /\ pending = 0
  /\ emitted = 0
  /\ fed = [l \in Levels |-> <<>>]
  /\ ticketCalls = 0
  /\ confirmed = FALSE
  /\ confirmedAt = NoTime
  /\ confirmCalls = 0
  /\ peerParams = NoParams
  /\ paramCalls = 0
  /\ e = NoEvent
  /\ fetches = 0
  /\ got = 0
  /\ delivers = 0
  /\ feedCalls = 0
  /\ lastFed = <<>>
  /\ arg = [space |-> "none", off |-> 0, data |-> <<>>]
  /\ pair = [s \in Sides |-> [started |-> FALSE, cid |-> <<>>, w |-> NoKeys, r |-> NoKeys]]
  /\ probed = {}

\* --------------------------------------------------------------- startTLS
\* mutant: the error of c.tls.Start is not looked at
AfterStart_Ignored(ok) == "drain"

\* pc after c.tls.Start: its error is returned, else the drain loop runs
AfterStart(ok) == IF ok THEN "drain" ELSE "failed"

StartTLS(t, cid, params, ok, k) ==
  /\ pc = "new"
  /\ now' = t
  /\ wkeys' = [wkeys EXCEPT ![initialSpace] = InitialSlots(side, cid).w]
  /\ rkeys' = [rkeys EXCEPT ![initialSpace] = InitialSlots(side, cid).r]
  /\ tlsParams' = marshalTransportParameters(params)
  /\ pc' = AfterStart(ok)
  /\ err' = IF ok THEN "none" ELSE "start"
  /\ IF ok THEN Queue(k) ELSE UNCHANGED <<pending, emitted>>
  /\ fetches' = 0
  /\ got' = 0
  /\ feedCalls' = 0
  /\ UNCHANGED <<side, sessionTicketsDisabled, out, recv, cursor, fed, ticketCalls,
                 confirmed, confirmedAt, confirmCalls, peerParams, paramCalls, e,
                 delivers, lastFed, arg, pair, probed>>

\* ------------------------------------------------------- handleTLSEvents
\* what a loop iteration leaves alone whatever the event
LoopFrame == UNCHANGED <<side, sessionTicketsDisabled, now, recv, cursor, tlsParams,
                         fed, delivers, feedCalls, lastFed, arg, pair, probed>>

\* return err
ReturnErr(kind) ==
  /\ pc' = "failed"
  /\ err' = kind

\* mutant: the case returns nil where it should fall out of the switch
Continue_Returns ==
  /\ pc' = "idle"
  /\ err' = "ok"

\* next iteration
Continue ==
  /\ pc' = "drain"
  /\ err' = err

\* case tls.QUICNoEvent
HandleNoEvent ==
  /\ pc = "drain"
  /\ pending = 0
  /\ NextEvent(NoEvent)
  /\ pc' = "idle"
  /\ err' = "ok"
  /\ LoopFrame
  /\ UNCHANGED <<rkeys, wkeys, out, pending, emitted, ticketCalls, confirmed,
                 confirmedAt, confirmCalls, peerParams, paramCalls>>

\* mutant: the read secret is installed in both directions of the space
HandleSetReadSecret_BothSlots(ev) ==
  /\ pc = "drain"
  /\ pending > 0
  /\ ev.Kind = "QUICSetReadSecret"
  /\ NextEvent(ev)
  /\ pending' = pending - 1
  /\ LET r == tlsKey(ev)
     IN  IF r.err # "none"
           THEN ReturnErr(r.err) /\ rkeys' = rkeys /\ wkeys' = wkeys
           ELSE /\ Continue
                /\ rkeys' = [rkeys EXCEPT ![r.space] = r.k]
                /\ wkeys' = [wkeys EXCEPT ![r.space] = r.k]
  /\ LoopFrame
  /\ UNCHANGED <<out, emitted, ticketCalls, confirmed, confirmedAt,
                 confirmCalls, peerParams, paramCalls>>

\* case tls.QUICSetReadSecret
HandleSetReadSecret(ev) ==
  /\ pc = "drain"
  /\ pending > 0
  /\ ev.Kind = "QUICSetReadSecret"
  /\ NextEvent(ev)
  /\ pending' = pending - 1
  /\ LET r == tlsKey(ev)
     IN  IF r.err # "none"
           THEN ReturnErr(r.err) /\ rkeys' = rkeys
           ELSE Continue /\ rkeys' = [rkeys EXCEPT ![r.space] = r.k]
  /\ LoopFrame
  /\ UNCHANGED <<wkeys, out, emitted, ticketCalls, confirmed, confirmedAt,
                 confirmCalls, peerParams, paramCalls>>

\* case tls.QUICSetWriteSecret
HandleSetWriteSecret(ev) ==
  /\ pc = "drain"
  /\ pending > 0
  /\ ev.Kind = "QUICSetWriteSecret"
  /\ NextEvent(ev)
  /\ pending' = pending - 1
  /\ LET r == tlsKey(ev)
     IN  IF r.err # "none"
           THEN ReturnErr(r.err) /\ wkeys' = wkeys
           ELSE Continue /\ wkeys' = [wkeys EXCEPT ![r.space] = r.k]
  /\ LoopFrame
  /\ UNCHANGED <<rkeys, out, emitted, ticketCalls, confirmed, confirmedAt,
                 confirmCalls, peerParams, paramCalls>>

\* case tls.QUICWriteData
HandleWriteData(ev) ==
  /\ pc = "drain"
  /\ pending > 0
  /\ ev.Kind = "QUICWriteData"
  /\ NextEvent(ev)
  /\ pending' = pending - 1
  /\ LET sl == spaceForLevel(ev.Level)
     IN  IF sl.err
           THEN ReturnErr("level") /\ out' = out
           ELSE Continue /\ out' = [out EXCEPT ![sl.space] = out[sl.space] \o ev.Data]
  /\ LoopFrame
  /\ UNCHANGED <<rkeys, wkeys, emitted, ticketCalls, confirmed, confirmedAt,
                 confirmCalls, peerParams, paramCalls>>

\* mutant: the side is not tested
Confirms_Always(s) == TRUE

\* the side test of case tls.QUICHandshakeDone
Confirms(s) == s = serverSide

\* mutant: the ticket is sent whatever the configuration says
SendsTicket_Always(disabled) == TRUE

\* the test that guards c.tls.SendSessionTicket
SendsTicket(disabled) == ~disabled

\* mutant: the confirmation is stamped with the time of the call before
HandleHandshakeDone_StaleTime(ev, ok, k) ==
  /\ pc = "drain"
  /\ pending > 0
  /\ ev.Kind = "QUICHandshakeDone"
  /\ NextEvent(ev)
  /\ IF Confirms(side)
       THEN /\ confirmHandshake(now - 1)
            /\ IF SendsTicket(sessionTicketsDisabled)
                 THEN /\ ticketCalls' = ticketCalls + 1
                      /\ IF ok
                           THEN Continue /\ pending' = pending - 1 + k
                                  /\ emitted' = emitted + k
                           ELSE ReturnErr("ticket") /\ pending' = pending - 1
                                  /\ emitted' = emitted
                 ELSE /\ ok /\ k = 0
                      /\ Continue
                      /\ pending' = pending - 1
                      /\ UNCHANGED <<emitted, ticketCalls>>
       ELSE /\ ok /\ k = 0
            /\ Continue
            /\ pending' = pending - 1
            /\ UNCHANGED <<emitted, ticketCalls, confirmed, confirmedAt, confirmCalls>>
  /\ LoopFrame
  /\ UNCHANGED <<rkeys, wkeys, out, peerParams, paramCalls>>

\* mutant: the ticket is sent first, and its error is returned before the
\* handshake is confirmed
HandleHandshakeDone_TicketFirst(ev, ok, k) ==
  /\ pc = "drain"
  /\ pending > 0
  /\ ev.Kind = "QUICHandshakeDone"
  /\ NextEvent(ev)
  /\ IF Confirms(side)
       THEN IF SendsTicket(sessionTicketsDisabled)
              THEN /\ ticketCalls' = ticketCalls + 1
                   /\ IF ok
                        THEN /\ Continue
                             /\ confirmHandshake(now)
                             /\ pending' = pending - 1 + k
                             /\ emitted' = emitted + k
                        ELSE /\ ReturnErr("ticket")
                             /\ pending' = pending - 1
                             /\ UNCHANGED <<emitted, confirmed, confirmedAt, confirmCalls>>
              ELSE /\ ok /\ k = 0
                   /\ Continue
                   /\ confirmHandshake(now)
                   /\ pending' = pending - 1
                   /\ UNCHANGED <<emitted, ticketCalls>>
       ELSE /\ ok /\ k = 0
            /\ Continue
            /\ pending' = pending - 1
            /\ UNCHANGED <<emitted, ticketCalls, confirmed, confirmedAt, confirmCalls>>
  /\ LoopFrame
  /\ UNCHANGED <<rkeys, wkeys, out, peerParams, paramCalls>>

\* case tls.QUICHandshakeDone; ok and k are the outcome of SendSessionTicket
HandleHandshakeDone(ev, ok, k) ==
  /\ pc = "drain"
  /\ pending > 0
  /\ ev.Kind = "QUICHandshakeDone"
  /\ NextEvent(ev)
  /\ IF Confirms(side)
       THEN /\ confirmHandshake(now)
            /\ IF SendsTicket(sessionTicketsDisabled)
                 THEN /\ ticketCalls' = ticketCalls + 1
                      /\ IF ok
                           THEN Continue /\ pending' = pending - 1 + k
                                  /\ emitted' = emitted + k
                           ELSE ReturnErr("ticket") /\ pending' = pending - 1
                                  /\ emitted' = emitted
                 ELSE /\ ok /\ k = 0
                      /\ Continue
                      /\ pending' = pending - 1
                      /\ UNCHANGED <<emitted, ticketCalls>>
       ELSE /\ ok /\ k = 0
            /\ Continue
            /\ pending' = pending - 1
            /\ UNCHANGED <<emitted, ticketCalls, confirmed, confirmedAt, confirmCalls>>
  /\ LoopFrame
  /\ UNCHANGED <<rkeys, wkeys, out, peerParams, paramCalls>>

\* mutant: the error of unmarshalTransportParams is not looked at
HandleTransportParameters_NoCheck(ev) ==
  /\ pc = "drain"
  /\ pending > 0
  /\ ev.Kind = "QUICTransportParameters"
  /\ NextEvent(ev)
  /\ pending' = pending - 1
  /\ Continue
  /\ receiveTransportParameters(unmarshalTransportParams(ev.Data).params)
  /\ LoopFrame
  /\ UNCHANGED <<rkeys, wkeys, out, emitted, ticketCalls, confirmed, confirmedAt,
                 confirmCalls>>

\* case tls.QUICTransportParameters
HandleTransportParameters(ev) ==
  /\ pc = "drain"
  /\ pending > 0
  /\ ev.Kind = "QUICTransportParameters"
  /\ NextEvent(ev)
  /\ pending' = pending - 1
  /\ LET r == unmarshalTransportParams(ev.Data)
     IN  IF r.err
           THEN ReturnErr("params") /\ UNCHANGED <<peerParams, paramCalls>>
           ELSE Continue /\ receiveTransportParameters(r.params)
  /\ LoopFrame
  /\ UNCHANGED <<rkeys, wkeys, out, emitted, ticketCalls, confirmed, confirmedAt,
                 confirmCalls>>

\* ------------------------------------------------------------ handleCrypto
\* mutant: the stream's error is dropped
AfterStream_Dropped(failed) == "drain"

\* mutant: handleCrypto returns nil where it should run the drain loop
AfterStream_NoDrain(failed) == IF failed THEN "failed" ELSE "idle"

\* pc after c.crypto[space].handleCrypto: its error is returned, else the
\* drain loop runs
AfterStream(failed) == IF failed THEN "failed" ELSE "drain"

\* ok and k are the outcome of c.tls.HandleData when it is called
HandleCrypto(t, space, off, data, ok, k) ==
  /\ pc = "idle"
  /\ delivers' = delivers + 1
  /\ arg' = [space |-> space, off |-> off, data |-> data]
  /\ now' = t
  /\ fetches' = 0
  /\ got' = 0
  /\ LET lv == levelForSpace(space)
     IN  IF lv.err
           THEN /\ ok /\ k = 0
                /\ pc' = "failed"
                /\ err' = "space"
                /\ feedCalls' = 0
                /\ UNCHANGED <<recv, cursor, fed, lastFed, pending, emitted>>
           ELSE LET r == StreamHandle(recv[space], cursor[space], off, data)
                    feeds == ~r.err /\ r.end > cursor[space]
                    failed == r.err \/ (feeds /\ ~ok)
                IN  /\ feeds \/ (ok /\ k = 0)
                    /\ ok \/ k = 0
                    /\ pc' = AfterStream(failed)
                    /\ err' = IF r.err THEN "crypto" ELSE IF failed THEN "feed" ELSE "none"
                    /\ feedCalls' = IF feeds THEN 1 ELSE 0
                    /\ lastFed' = IF feeds THEN r.bytes ELSE lastFed
                    /\ recv' = [recv EXCEPT ![space] = r.recv]
                    /\ IF feeds /\ ok
                         THEN /\ fed' = [fed EXCEPT ![lv.level] = fed[lv.level] \o r.bytes]
                              /\ cursor' = [cursor EXCEPT ![space] = r.end]
                              /\ Queue(k)
                         ELSE UNCHANGED <<fed, cursor, pending, emitted>>
  /\ UNCHANGED <<side, sessionTicketsDisabled, rkeys, wkeys, out, tlsParams, ticketCalls,
                 confirmed, confirmedAt, confirmCalls, peerParams, paramCalls, e, pair,
                 probed>>

\* ------------------------------------------------------------------ Next
\* the now of a call is later than the now of the call before it
Clock == {now + 1}

DoStartTLS(maxEv) ==
  \E t \in Clock, cid \in ConnIDs, params \in Params, ok \in BOOLEAN, k \in Bursts(maxEv) :
    StartTLS(t, cid, params, ok, k)

DoSetReadSecret == \E ev \in EngineEvents : HandleSetReadSecret(ev)
DoSetWriteSecret == \E ev \in EngineEvents : HandleSetWriteSecret(ev)
DoWriteData == \E ev \in EngineEvents : HandleWriteData(ev)
DoHandshakeDone(maxEv) ==
  \E ok \in BOOLEAN, k \in {j \in 0..1 : emitted + j <= maxEv} :
    HandleHandshakeDone(HandshakeDoneEvent, ok, k)
DoTransportParameters == \E ev \in EngineEvents : HandleTransportParameters(ev)

DoHandleCrypto(maxEv, maxDel) ==
  /\ delivers < maxDel
  /\ \E t \in Clock, space \in Spaces \cup {badSpace}, off \in Offsets, data \in Chunks,
        ok \in BOOLEAN, k \in Bursts(maxEv) :
       HandleCrypto(t, space, off, data, ok, k)

\* the handshake: up to MaxEvents engine events, up to MaxDeliver CRYPTO frames
Next ==
  \/ DoStartTLS(MaxEvents)
  \/ HandleNoEvent
  \/ DoSetReadSecret
  \/ DoSetWriteSecret
  \/ DoWriteData
  \/ DoHandshakeDone(MaxEvents)
  \/ DoTransportParameters
  \/ DoHandleCrypto(MaxEvents, MaxDeliver)

Spec == Init /\ [][Next]_vars

\* the same connection with more CRYPTO frames and fewer engine events
StreamNext ==
  \/ DoStartTLS(MaxStreamEvents)
  \/ HandleNoEvent
  \/ DoSetReadSecret
  \/ DoSetWriteSecret
  \/ DoWriteData
  \/ DoHandshakeDone(MaxStreamEvents)
  \/ DoTransportParameters
  \/ DoHandleCrypto(MaxStreamEvents, MaxStreamDeliver)

StreamSpec == Init /\ [][StreamNext]_vars

\* two endpoints, each running the Initial key assignment of startTLS
PairStart(s, cid) ==
  /\ ~pair[s].started
  /\ pair' = [pair EXCEPT ![s] = [started |-> TRUE, cid |-> cid,
                                  w |-> InitialSlots(s, cid).w,
                                  r |-> InitialSlots(s, cid).r]]
  /\ UNCHANGED connVars

PairNext == \E s \in Sides, cid \in {<<i>> : i \in 1..MaxPairID} : PairStart(s, cid)

PairSpec == Init /\ [][PairNext]_vars

\* a level value that is none of the four named constants
QUICEncryptionLevelOther == "QUICEncryptionLevel(4)"

\* the level handleCrypto picks for space, and the space spaceForLevel gives
\* back for that level
ProbeSpace(space) ==
  /\ LET lv == levelForSpace(space)
     IN  probed' = probed \cup
           {[kind |-> "space", in |-> space, err |-> lv.err, level |-> lv.level,
             back |-> IF lv.err THEN [space |-> badSpace, err |-> TRUE]
                      ELSE spaceForLevel(lv.level)]}
  /\ probed' # probed
  /\ UNCHANGED <<side, sessionTicketsDisabled, pc, err, now, rkeys, wkeys, out, recv,
                 cursor, tlsParams, pending, emitted, fed, ticketCalls, confirmed,
                 confirmedAt, confirmCalls, peerParams, paramCalls, e, fetches, got,
                 delivers, feedCalls, lastFed, arg, pair>>

\* spaceForLevel(level)
ProbeLevel(level) ==
  /\ LET sl == spaceForLevel(level)
     IN  probed' = probed \cup
           {[kind |-> "level", in |-> level, err |-> sl.err, level |-> level,
             back |-> sl]}
  /\ probed' # probed
  /\ UNCHANGED <<side, sessionTicketsDisabled, pc, err, now, rkeys, wkeys, out, recv,
                 cursor, tlsParams, pending, emitted, fed, ticketCalls, confirmed,
                 confirmedAt, confirmCalls, peerParams, paramCalls, e, fetches, got,
                 delivers, feedCalls, lastFed, arg, pair>>

MapNext ==
  \/ \E space \in Spaces \cup {badSpace} : ProbeSpace(space)
  \/ \E level \in Levels \cup {QUICEncryptionLevelOther} : ProbeLevel(level)

MapSpec == Init /\ [][MapNext]_vars

TypeOK ==
  /\ pc \in {"new", "drain", "idle", "failed"}
  /\ pending \in 0..MaxEvents
  /\ emitted \in 0..MaxEvents
  /\ \A s \in Spaces : cursor[s] \in 0..(MaxOff + MaxLen)

\* ================================================================ claims
\* a step that fetched an event of the given kind from the engine
Fetched(kind) == fetches' = fetches + 1 /\ e'.Kind = kind

\* the number space each known engine level stands for
ClaimSpace(l) ==
  CASE l = "Initial" -> "initialSpace"
    [] l = "Handshake" -> "handshakeSpace"
    [] l = "Application" -> "appDataSpace"

KnownLevels == {"Initial", "Handshake", "Application"}

\* C1: a key slot that has been written is never overwritten, and a
\* SetReadSecret/SetWriteSecret event for an occupied slot makes the drain
\* fail with the slot's keys left in place.
C1_KeysInstalledOnce ==
  [][\A s \in Spaces :
       /\ rkeys[s] # NoKeys => rkeys'[s] = rkeys[s]
       /\ wkeys[s] # NoKeys => wkeys'[s] = wkeys[s]
       /\ (Fetched("QUICSetReadSecret") /\ e'.Level \in KnownLevels
             /\ ClaimSpace(e'.Level) = s /\ rkeys[s] # NoKeys) => pc' = "failed"
       /\ (Fetched("QUICSetWriteSecret") /\ e'.Level \in KnownLevels
             /\ ClaimSpace(e'.Level) = s /\ wkeys[s] # NoKeys) => pc' = "failed"]_vars

\* C2: on the responder, a HandshakeDone event drained after the handshake is
\* confirmed neither invokes confirmHandshake again nor changes the flag or
\* its timestamp.
C2_ConfirmHookOnce ==
  [][(side = serverSide /\ confirmed /\ Fetched("QUICHandshakeDone"))
       => UNCHANGED <<confirmCalls, confirmed, confirmedAt>>]_vars

\* C3: when a responder drains a HandshakeDone event, SendSessionTicket is
\* called (once) if session tickets are enabled and not called if they are
\* disabled.
C3_TicketIffEnabled ==
  [][(side = serverSide /\ Fetched("QUICHandshakeDone"))
       => /\ ~sessionTicketsDisabled => ticketCalls' = ticketCalls + 1
          /\ sessionTicketsDisabled => ticketCalls' = ticketCalls]_vars

\* C3 witness: a responder with tickets enabled has drained a HandshakeDone
\* event and asked for a ticket.
C3_Witness ==
  /\ side = serverSide
  /\ ~sessionTicketsDisabled
  /\ e.Kind = "QUICHandshakeDone"
  /\ ticketCalls = 1

\* C4: a responder with tickets enabled calls SendSessionTicket exactly once
\* over the handshake, however many HandshakeDone events the engine emits.
C4_OneTicket ==
  (side = serverSide /\ ~sessionTicketsDisabled /\ confirmed) => ticketCalls = 1

\* the engine level each number space stands for
ClaimLevel(s) ==
  CASE s = "initialSpace" -> "Initial"
    [] s = "handshakeSpace" -> "Handshake"
    [] s = "appDataSpace" -> "Application"

\* the bytes received so far for [0, n) of space s
Received(s, n) == [i \in 1..n |-> recv[s][i - 1]]

\* the length of the gap-free run of received bytes that starts at offset 0
Extent(s) ==
  CHOOSE n \in 0..(MaxOff + MaxLen) :
    /\ \A q \in 0..(n - 1) : recv[s][q] # NoByte
    /\ n \in Positions => recv[s][n] = NoByte

\* a is a prefix of b
IsPrefix(a, b) == Len(a) <= Len(b) /\ \A i \in 1..Len(a) : a[i] = b[i]

\* C5: whatever the order of the CRYPTO frames, the bytes fed to the engine
\* for a space are at every point the received bytes of [0, cursor) in offset
\* order, each once; they only grow; and once the call has fed, nothing that
\* continues the run from offset 0 is left unfed.
C5_FedIsPrefix ==
  /\ [](\A s \in Spaces :
          /\ cursor[s] <= Extent(s)
          /\ fed[ClaimLevel(s)] = Received(s, cursor[s])
          /\ pc # "failed" => cursor[s] = Extent(s))
  /\ [](fed["Early"] = <<>>)
  /\ [][\A s \in Spaces :
          /\ IsPrefix(fed[ClaimLevel(s)], fed'[ClaimLevel(s)])
          /\ \A q \in Positions : recv[s][q] # NoByte => recv'[s][q] = recv[s][q]]_vars

\* C5 witness: one HandleData call carried more bytes than a frame holds: a
\* frame that arrived ahead of its turn was kept and fed after the gap closed.
C5_Witness ==
  /\ pc = "idle"
  /\ err = "ok"
  /\ Len(lastFed) > MaxLen
  /\ \E s \in Spaces : cursor[s] = Len(lastFed)

\* a handleCrypto step for a known space whose bytes agree with every byte
\* received before at the same offset
DeliverSame ==
  /\ delivers' = delivers + 1
  /\ arg'.space \in Spaces
  /\ \A i \in 1..Len(arg'.data) :
       recv[arg'.space][arg'.off + i - 1] \in {NoByte, arg'.data[i]}

\* C6: a frame that lies within the delivered bytes and repeats them feeds
\* nothing, leaves the cursor alone and returns success; a frame that repeats
\* delivered bytes and goes past them feeds from its first undelivered byte on.
C6_RedeliveryIdempotent ==
  /\ [][(DeliverSame /\ arg'.off + Len(arg'.data) <= cursor[arg'.space])
          => /\ pc' = "drain" /\ pending' = 0 /\ err' = "none"
             /\ feedCalls' = 0
             /\ fed' = fed
             /\ cursor' = cursor]_vars
  /\ [][(pc = "drain" /\ pending = 0) => (pc' = "idle" /\ err' = "ok")]_vars
  /\ [][(DeliverSame /\ arg'.off < cursor[arg'.space]
           /\ arg'.off + Len(arg'.data) > cursor[arg'.space])
          => LET s == arg'.space
                 tail == SubSeq(arg'.data, cursor[s] - arg'.off + 1, Len(arg'.data))
             IN  /\ feedCalls' = 1
                 /\ IsPrefix(tail, lastFed')
                 /\ pc' # "failed" =>
                      /\ pc' = "drain"
                      /\ fed'[ClaimLevel(s)] = fed[ClaimLevel(s)] \o lastFed'
                      /\ cursor'[s] = cursor[s] + Len(lastFed')]_vars

\* C6 witness: the second frame [1,3) overlapped the delivered [0,2) and one
\* byte, its last, was fed.
C6_Witness ==
  /\ delivers = 2
  /\ arg.off = 1
  /\ Len(arg.data) = 2
  /\ feedCalls = 1
  /\ Len(lastFed) = 1
  /\ arg.space \in Spaces
  /\ cursor[arg.space] = 3
  /\ pc = "idle"
  /\ err = "ok"

\* C7: a frame that carries, at an offset received before, a byte that
\* differs from the one received fails with the stream's error before the
\* engine is called, and no byte of it is fed.
C7_ConflictFails ==
  /\ [][(/\ delivers' = delivers + 1
         /\ arg'.space \in Spaces
         /\ \E i \in 1..Len(arg'.data) :
              recv[arg'.space][arg'.off + i - 1] \notin {NoByte, arg'.data[i]})
          => /\ pc' = "failed"
             /\ err' = "crypto"
             /\ feedCalls' = 0
             /\ fetches' = 0
             /\ UNCHANGED <<fed, recv, cursor, pending>>]_vars
  /\ [][pc = "failed" => UNCHANGED <<fed, fetches>>]_vars

\* C7 witness: the second frame conflicted with the first.
C7_Witness ==
  /\ pc = "failed"
  /\ err = "crypto"
  /\ delivers = 2
  /\ \E i \in 1..Len(arg.data) :
       recv[arg.space][arg.off + i - 1] \notin {NoByte, arg.data[i]}

\* C8: a SetReadSecret, SetWriteSecret or WriteData event at a level other
\* than Initial, Handshake, Application makes the drain return an error at
\* that event: no key slot, stream or confirmation changes, and nothing more
\* is fetched.
C8_UnknownLevelFails ==
  /\ [][(/\ fetches' = fetches + 1
         /\ e'.Kind \in {"QUICSetReadSecret", "QUICSetWriteSecret", "QUICWriteData"}
         /\ e'.Level \notin KnownLevels)
          => /\ pc' = "failed"
             /\ err' = "level"
             /\ UNCHANGED <<rkeys, wkeys, out, confirmed, confirmedAt>>]_vars
  /\ [][pc = "failed" => UNCHANGED <<fetches, rkeys, wkeys, out, confirmed, confirmedAt>>]_vars

\* C8 witness: the drain wrote handshake data, then failed on an event at the
\* Early level; the data is still in the stream.
C8_Witness ==
  /\ pc = "failed"
  /\ err = "level"
  /\ e.Level = "Early"
  /\ got >= 2
  /\ out["handshakeSpace"] # <<>>

\* C9: when both endpoints start from the same connection ID, each one's
\* Initial write keys are the other's Initial read keys.
C9_InitialKeySymmetry ==
  (/\ pair["clientSide"].started
   /\ pair["serverSide"].started
   /\ pair["clientSide"].cid = pair["serverSide"].cid)
    => /\ pair["clientSide"].w = pair["serverSide"].r
       /\ pair["clientSide"].r = pair["serverSide"].w
       /\ pair["clientSide"].w # NoKeys
       /\ pair["clientSide"].r # NoKeys

\* C9 witness: both endpoints have started from the same connection ID.
C9_Witness ==
  /\ pair["clientSide"].started
  /\ pair["serverSide"].started
  /\ pair["clientSide"].cid = pair["serverSide"].cid

\* the effect handleTLSEvents owes the event it has just fetched
EffectApplied ==
  CASE e'.Kind = "QUICSetReadSecret" ->
         /\ rkeys' = [rkeys EXCEPT ![ClaimSpace(e'.Level)] =
                        [suite |-> e'.Suite, secret |-> e'.Data, label |-> "quic key"]]
         /\ UNCHANGED <<wkeys, out, paramCalls, confirmCalls>>
    [] e'.Kind = "QUICSetWriteSecret" ->
         /\ wkeys' = [wkeys EXCEPT ![ClaimSpace(e'.Level)] =
                        [suite |-> e'.Suite, secret |-> e'.Data, label |-> "quic key"]]
         /\ UNCHANGED <<rkeys, out, paramCalls, confirmCalls>>
    [] e'.Kind = "QUICWriteData" ->
         /\ out' = [out EXCEPT ![ClaimSpace(e'.Level)] = out[ClaimSpace(e'.Level)] \o e'.Data]
         /\ UNCHANGED <<rkeys, wkeys, paramCalls, confirmCalls>>
    [] e'.Kind = "QUICHandshakeDone" ->
         /\ confirmCalls' = confirmCalls + (IF side = "serverSide" THEN 1 ELSE 0)
         /\ UNCHANGED <<rkeys, wkeys, out, paramCalls>>
    [] e'.Kind = "QUICTransportParameters" ->
         /\ paramCalls' = paramCalls + 1
         /\ peerParams' = e'.Data[1]
         /\ UNCHANGED <<rkeys, wkeys, out, confirmCalls>>

\* C10: the drain applies each event it fetches before it fetches the next,
\* keeps going while events come, returns success when it fetches NoEvent,
\* which it fetches once, as the last fetch of the call, with no queued event
\* left behind.
C10_DrainToQuiescence ==
  /\ [][(fetches' = fetches + 1 /\ e' # NoEvent /\ pc' # "failed")
          => (EffectApplied /\ pc' = "drain" /\ got' = got + 1)]_vars
  /\ [][(fetches' = fetches + 1 /\ e' = NoEvent)
          => (pc' = "idle" /\ err' = "ok" /\ pending = 0
              /\ UNCHANGED <<rkeys, wkeys, out, paramCalls, confirmCalls, got>>)]_vars
  /\ [](pc = "idle" => (e = NoEvent /\ err = "ok" /\ pending = 0 /\ fetches = got + 1))
  /\ [](pc = "drain" => (err = "none" /\ fetches = got))
  /\ [][pc # "drain" => (fetches' = fetches \/ fetches' = 0)]_vars

\* C10 witness: a drain applied three events, among them written data and a
\* read secret, and returned success at NoEvent.
C10_Witness ==
  /\ pc = "idle"
  /\ err = "ok"
  /\ e = NoEvent
  /\ got = 3
  /\ fetches = 4
  /\ out["handshakeSpace"] # <<>>
  /\ rkeys["appDataSpace"] # NoKeys

\* C11: a WriteData event appends its payload to the outbound stream of its
\* space and changes no other stream, no key slot and not the confirmation;
\* no other step changes an outbound stream, so each stream is the payloads
\* written for its space in the order the engine emitted them.
C11_OutboundAppendOnly ==
  /\ [][(Fetched("QUICWriteData") /\ e'.Level \in KnownLevels)
          => /\ out' = [out EXCEPT ![ClaimSpace(e'.Level)] =
                          out[ClaimSpace(e'.Level)] \o e'.Data]
             /\ UNCHANGED <<rkeys, wkeys, confirmed, confirmedAt>>]_vars
  /\ [][(~Fetched("QUICWriteData") \/ e'.Level \notin KnownLevels)
          => out' = out]_vars

\* C11 witness: two payloads written for the Handshake space and one for the
\* Initial space are in their streams, the Handshake ones in emission order.
C11_Witness ==
  /\ out["handshakeSpace"] = <<1, 2>>
  /\ out["initialSpace"] = <<2>>
  /\ out["appDataSpace"] = <<>>

\* C12: when the engine's Start fails, startTLS returns the error without a
\* single NextEvent; only the Initial key pair has been written: no other key
\* slot, no outbound stream and no confirmation has changed.
C12_StartFailureSkipsDrain ==
  /\ [][(pc = "new" /\ err' = "start")
          => /\ pc' = "failed"
             /\ fetches' = 0
             /\ \A s \in Spaces \ {"initialSpace"} :
                  rkeys'[s] = rkeys[s] /\ wkeys'[s] = wkeys[s]
             /\ UNCHANGED <<e, out, confirmed, confirmedAt, confirmCalls, pending>>]_vars
  /\ [](err = "start"
          => /\ pc = "failed"
             /\ fetches = 0
             /\ got = 0
             /\ ~confirmed
             /\ \A s \in Spaces : out[s] = <<>>
             /\ \A s \in Spaces \ {"initialSpace"} :
                  rkeys[s] = NoKeys /\ wkeys[s] = NoKeys)

\* C12 witness: Start failed after the Initial keys were written.
C12_Witness ==
  /\ err = "start"
  /\ pc = "failed"
  /\ rkeys["initialSpace"] # NoKeys
  /\ wkeys["initialSpace"] # NoKeys
  /\ fetches = 0

\* C13: a TransportParameters event whose payload parses hands the parsed
\* parameters to receiveTransportParameters, once; one whose payload does not
\* parse makes the drain return an error with the sink not called and nothing
\* more fetched; no other event calls the sink.
C13_ParamsSinkIffParsed ==
  /\ [][Fetched("QUICTransportParameters")
          => IF e'.Data # <<>>
               THEN /\ paramCalls' = paramCalls + 1
                    /\ peerParams' = e'.Data[1]
                    /\ pc' = "drain"
               ELSE /\ paramCalls' = paramCalls
                    /\ peerParams' = peerParams
                    /\ pc' = "failed"
                    /\ err' = "params"]_vars
  /\ [][~Fetched("QUICTransportParameters")
          => UNCHANGED <<paramCalls, peerParams>>]_vars
  /\ [][pc = "failed" => UNCHANGED <<fetches, paramCalls, peerParams>>]_vars

\* C13 witness: one payload was parsed and delivered, the next did not parse.
C13_Witness ==
  /\ pc = "failed"
  /\ err = "params"
  /\ e.Kind = "QUICTransportParameters"
  /\ e.Data = <<>>
  /\ paramCalls = 1
  /\ peerParams # NoParams

\* C14: handleCrypto feeds the engine at the start of the call, before any
\* NextEvent, and never during the drain; it is back from a successful call
\* only once the drain has fetched NoEvent with no event left queued; and when
\* the stream or HandleData fails it returns without any NextEvent.
C14_FeedBeforeDrain ==
  /\ [][(fed' # fed \/ (feedCalls' > 0 /\ feedCalls' # feedCalls))
          => (delivers' = delivers + 1 /\ fetches' = 0)]_vars
  /\ [][fetches' = fetches + 1 => UNCHANGED <<fed, feedCalls, lastFed>>]_vars
  /\ [][delivers' = delivers + 1 => pc' \in {"drain", "failed"}]_vars
  /\ [](pc = "idle" => (pending = 0 /\ e = NoEvent /\ fetches = got + 1))
  /\ [](err \in {"crypto", "feed", "space"} => (pc = "failed" /\ fetches = 0))

\* C14 witness: a handleCrypto call fed the engine, the engine answered with
\* events, and the call returned after draining them.
C14_Witness ==
  /\ pc = "idle"
  /\ err = "ok"
  /\ delivers = 1
  /\ feedCalls = 1
  /\ got >= 1
  /\ fetches = got + 1

\* the keys derived from the suite and secret of the event just fetched
ClaimKeys == [suite |-> e'.Suite, secret |-> e'.Data, label |-> "quic key"]

\* the slots of m outside the space of the event just fetched are unchanged,
\* and that space's slot is unchanged or holds the derived keys
OnlyMappedSlot(m, m2) ==
  \A s \in Spaces :
    IF e'.Level \in KnownLevels /\ s = ClaimSpace(e'.Level)
      THEN m2[s] = m[s] \/ (m2[s] = ClaimKeys /\ pc' = "drain")
      ELSE m2[s] = m[s]

\* C15: a SetReadSecret event changes only the read key slot of the mapped
\* space and a SetWriteSecret event only the write key slot of the mapped
\* space; the opposite direction, the slots of the other spaces, the streams
\* and the confirmation flag are unchanged, and an event that does not fail
\* leaves the derived keys in its slot.
C15_SecretFrame ==
  [][/\ Fetched("QUICSetReadSecret")
          => /\ OnlyMappedSlot(rkeys, rkeys')
             /\ pc' = "drain" => rkeys'[ClaimSpace(e'.Level)] = ClaimKeys
             /\ UNCHANGED <<wkeys, out, recv, cursor, fed, confirmed, confirmedAt>>
     /\ Fetched("QUICSetWriteSecret")
          => /\ OnlyMappedSlot(wkeys, wkeys')
             /\ pc' = "drain" => wkeys'[ClaimSpace(e'.Level)] = ClaimKeys
             /\ UNCHANGED <<rkeys, out, recv, cursor, fed, confirmed, confirmedAt>>]_vars

\* C15 witness: a SetReadSecret event of the Handshake level has been drained;
\* the read slot of the handshake space is filled and its write slot is empty.
C15_Witness ==
  /\ pc = "drain"
  /\ e.Kind = "QUICSetReadSecret"
  /\ e.Level = "Handshake"
  /\ rkeys["handshakeSpace"] = [suite |-> e.Suite, secret |-> e.Data, label |-> "quic key"]
  /\ wkeys["handshakeSpace"] = NoKeys
  /\ rkeys["appDataSpace"] = NoKeys

KnownSpaces == {"initialSpace", "handshakeSpace", "appDataSpace"}

\* C16: the level mapping is a bijection on the three known values: a space
\* mapped to its level and back through spaceForLevel is the same space for
\* each of Initial, Handshake, AppData, distinct spaces have distinct levels,
\* and spaceForLevel fails for every level outside the three images.
C16_LevelBijection ==
  /\ \A r \in probed :
       (r.kind = "space" /\ r.in \in KnownSpaces)
         => /\ ~r.err
            /\ r.level \in KnownLevels
            /\ ClaimSpace(r.level) = r.in
            /\ ~r.back.err
            /\ r.back.space = r.in
  /\ \A r1, r2 \in probed :
       (r1.kind = "space" /\ r2.kind = "space" /\ r1.in \in KnownSpaces
          /\ r2.in \in KnownSpaces /\ r1.in # r2.in) => r1.level # r2.level
  /\ \A r \in probed :
       r.kind = "level"
         => IF r.in \in KnownLevels
              THEN ~r.back.err /\ r.back.space = ClaimSpace(r.in)
              ELSE r.back.err

\* C16 witness: the three spaces have been mapped there and back, and
\* spaceForLevel has been applied to the early-data level and to a level that
\* is none of the named ones.
C16_Witness ==
  /\ \A s \in KnownSpaces : \E r \in probed : r.kind = "space" /\ r.in = s /\ r.back.space = s
  /\ \E r \in probed : r.kind = "level" /\ r.in = "Early" /\ r.back.err
  /\ \E r \in probed : r.kind = "level" /\ r.in = "QUICEncryptionLevel(4)" /\ r.back.err
  /\ \E r \in probed : r.kind = "level" /\ r.in = "Application" /\ ~r.back.err

\* C17: the timestamp of the responder's confirmation is the now argument of
\* the outer call (startTLS or handleCrypto) whose drain consumed the
\* HandshakeDone event: calls carry the times 1, 2, ... in order, the step
\* that confirms stamps the time of the call it runs in, and no later call
\* changes the stamp.
C17_ConfirmationTime ==
  /\ [](pc # "new" => now = delivers + 1)
  /\ [][(side = serverSide /\ ~confirmed /\ Fetched("QUICHandshakeDone"))
          => (confirmed' /\ confirmedAt' = delivers + 1 /\ delivers' = delivers)]_vars
  /\ [][confirmed => (confirmed' /\ confirmedAt' = confirmedAt)]_vars
  /\ [](~confirmed => confirmedAt = NoTime)

\* C17 witness: the responder consumed HandshakeDone in the drain of the
\* first handleCrypto call, the second outer call, and carries its time.
C17_Witness ==
  /\ side = serverSide
  /\ e.Kind = "QUICHandshakeDone"
  /\ confirmed
  /\ delivers = 1
  /\ confirmCalls = 1
  /\ confirmedAt = 2
  /\ now = 2

\* C18: on the initiator a HandshakeDone event has no effect: the
\* confirmation flag stays false and SendSessionTicket is never called,
\* whatever the session-ticket policy, and the drain goes on to the next
\* event.
C18_InitiatorHandshakeDone ==
  /\ [](side = clientSide => (~confirmed /\ confirmCalls = 0 /\ ticketCalls = 0
                               /\ confirmedAt = NoTime))
  /\ [][(side = clientSide /\ Fetched("QUICHandshakeDone"))
          => /\ pc' = "drain"
             /\ err' = err
             /\ pending' = pending - 1
             /\ UNCHANGED <<confirmed, confirmedAt, confirmCalls, ticketCalls, emitted,
                            rkeys, wkeys, out, recv, cursor, fed, peerParams,
                            paramCalls>>]_vars

\* C18 witness: an initiator with session tickets enabled has drained a
\* HandshakeDone event and is about to fetch the next event.
C18_Witness ==
  /\ side = clientSide
  /\ ~sessionTicketsDisabled
  /\ pc = "drain"
  /\ e.Kind = "QUICHandshakeDone"
  /\ pending > 0
  /\ ~confirmed
  /\ ticketCalls = 0

\* C19: on the responder the confirmation comes before the ticket and is not
\* rolled back: when SendSessionTicket fails, the drain returns that error at
\* the HandshakeDone event and fetches nothing more, and the confirmation
\* made for that event stays.
C19_TicketFailureKeepsConfirmation ==
  /\ [][(Fetched("QUICHandshakeDone") /\ pc' = "failed")
          => /\ side = serverSide
             /\ ~sessionTicketsDisabled
             /\ err' = "ticket"
             /\ ticketCalls' = ticketCalls + 1
             /\ confirmCalls' = confirmCalls + 1
             /\ confirmed'
             /\ confirmedAt' # NoTime]_vars
  /\ [](err = "ticket" => (pc = "failed" /\ e.Kind = "QUICHandshakeDone" /\ confirmed
                            /\ confirmCalls >= 1 /\ ticketCalls >= 1))
  /\ [][pc = "failed" => UNCHANGED <<fetches, got, e, confirmed, confirmedAt>>]_vars

\* C19 witness: the ticket send of a responder failed while events were
\* still queued; the handshake is confirmed and the drain has stopped.
C19_Witness ==
  /\ side = serverSide
  /\ pc = "failed"
  /\ err = "ticket"
  /\ e.Kind = "QUICHandshakeDone"
  /\ confirmed
  /\ confirmCalls = 1
  /\ ticketCalls = 1
  /\ pending > 0

\* C20: when the keys cannot be derived from the suite and secret of a
\* SetReadSecret or SetWriteSecret event of a known level, the drain returns
\* the error at that event, every key slot keeps its content, empty or
\* installed, and no further event is fetched.
C20_KeyFailureKeepsSlot ==
  /\ [][((Fetched("QUICSetReadSecret") \/ Fetched("QUICSetWriteSecret"))
           /\ e'.Level \in KnownLevels /\ e'.Suite = "unsupported")
          => /\ pc' = "failed"
             /\ err' = "keys"
             /\ rkeys' = rkeys
             /\ wkeys' = wkeys]_vars
  /\ [](err = "keys" => (pc = "failed" /\ e.Suite = "unsupported"
                          /\ e.Level \in KnownLevels
                          /\ e.Kind \in {"QUICSetReadSecret", "QUICSetWriteSecret"}))
  /\ [][pc = "failed" => UNCHANGED <<fetches, got, e, rkeys, wkeys, pending>>]_vars

\* C20 witness: a SetReadSecret event of the Handshake level failed in key
\* derivation while the slot it targets held keys and events were queued.
C20_Witness ==
  /\ pc = "failed"
  /\ err = "keys"
  /\ e.Kind = "QUICSetReadSecret"
  /\ e.Level = "Handshake"
  /\ e.Suite = "unsupported"
  /\ rkeys["handshakeSpace"] # NoKeys
  /\ wkeys["handshakeSpace"] = NoKeys
  /\ pending > 0

====
